---- MODULE Spec2Model ----
(***************************************************************************)
(* Token-2022 GroupPointer extension of pinocchio's token program helpers: *)
(* the record accessor GroupPointer::from_account_info_unchecked and the   *)
(* two CPI instruction builders Initialize and Update                      *)
(* (programs/token/src/extensions/group_pointer.rs).                       *)
(*                                                                         *)
(* Bytes are integers 0..255, a Pubkey is a sequence of 32 bytes, an       *)
(* Option<T> is a sequence of length 0 (None) or 1 (Some).  Rust's         *)
(* half-open, 0-based range lo..hi is the TLA+ index range lo+1..hi.       *)
(***************************************************************************)
EXTENDS Integers, Sequences, FiniteSets, TLC

(* ------------------------------ bounds -------------------------------- *)

\* Largest number of entries in an account's extension index.
MaxEntries == 2

\* Number of calls the calling program makes in one run.
MaxCalls == 1

(* ----------------------------- addresses ------------------------------ *)

PUBKEY_BYTES == 32

\* Pubkey::default(): the all-zero address.
Pubkey_default == [i \in 1..PUBKEY_BYTES |-> 0]

\* The addresses 0xAA..AA and 0xBB..BB.
AddrA == [i \in 1..PUBKEY_BYTES |-> 170]
AddrB == [i \in 1..PUBKEY_BYTES |-> 187]

\* An address whose 32 bytes are pairwise different (1, 2, ..., 32).
MixAddr == [i \in 1..PUBKEY_BYTES |-> i]

\* Addresses a caller passes as instruction fields.
Addrs == {Pubkey_default, AddrA, AddrB}

None == << >>
Some(v) == << v >>
Option(S) == {None} \cup {Some(v) : v \in S}

\* Program ids, by their base58 names.
TOKEN_2022_PROGRAM_ID == "TokenzQdBNbLqP5VEhdkAS6EPFLC1PHnBqCXEpPxuEb"
SYSTEM_PROGRAM_ID == "11111111111111111111111111111111"

(* ------------------------- extension records -------------------------- *)

\* size_of::<GroupPointer>(): two 32-byte Pubkey fields.
GroupPointer_LEN == 64

\* ExtensionType tags (u16) of the extension registry.
ExtensionType_MetadataPointer == 18
ExtensionType_GroupPointer == 20
ExtensionType_GroupMemberPointer == 22

\* Variant: the extension registered under the tag of another pointer
\* extension.
GroupPointer_TYPE_metadata == ExtensionType_MetadataPointer

\* impl Extension for GroupPointer
GroupPointer_TYPE == ExtensionType_GroupPointer
Extension_LEN == GroupPointer_LEN

\* One index entry: the 2-byte little-endian type tag, the 2-byte
\* little-endian declared length, then `len` bytes of value.
u16_le(n) == << n % 256, (n \div 256) % 256 >>
Entry(type, len, value) == u16_le(type) \o u16_le(len) \o SubSeq(value, 1, len)

\* The bytes of a GroupPointer record holding (authority, group_address).
RecordBytes(authority, group_address) == authority \o group_address

\* The recorded pairs used as account contents.
RecordPairs == { << AddrA, AddrB >>, << MixAddr, Pubkey_default >> }

GroupPointerEntries ==
    { Entry(ExtensionType_GroupPointer, 64, RecordBytes(p[1], p[2])) :
        p \in RecordPairs }
    \cup { Entry(ExtensionType_GroupPointer, 32, AddrA) }

OtherEntries ==
    { Entry(ExtensionType_MetadataPointer, 64, RecordBytes(AddrB, AddrA)),
      Entry(ExtensionType_GroupMemberPointer, 32, MixAddr) }

Entries == GroupPointerEntries \cup OtherEntries

EntryType(e) == e[1] + 256 * e[2]

RECURSIVE Flatten(_)
Flatten(es) == IF es = << >> THEN << >> ELSE Head(es) \o Flatten(Tail(es))

\* Extension indexes as the Token-2022 program lays them out: a run of
\* entries, each extension type at most once.
EntryLists ==
    UNION { { es \in [1..n -> Entries] :
                \A i, j \in 1..n : i # j => EntryType(es[i]) # EntryType(es[j]) } :
            n \in 0..MaxEntries }

\* Account data, as the bytes of the extension index that follows the base
\* state of the account.
Layouts == { Flatten(es) : es \in EntryLists }

\* Variant: the two fields declared in the opposite order.
GroupPointer_from_bytes_swapped(bytes) ==
    [ authority |-> SubSeq(bytes, 33, 64),
      group_address |-> SubSeq(bytes, 1, 32) ]

\* Reinterpretation of 64 bytes as a GroupPointer: the fields in declaration
\* order, authority first.
GroupPointer_from_bytes(bytes) ==
    [ authority |-> SubSeq(bytes, 1, 32),
      group_address |-> SubSeq(bytes, 33, 64) ]

\* get_extension_from_bytes::<GroupPointer>: walks the index from offset
\* `start` and yields the value of the first entry whose tag and declared
\* length are those of the extension; None when the index is exhausted.
RECURSIVE scan_extensions(_, _)
scan_extensions(ext_bytes, start) ==
    IF start + 4 > Len(ext_bytes)
    THEN None
    ELSE LET ext_type == ext_bytes[start + 1] + 256 * ext_bytes[start + 2]
             ext_len == ext_bytes[start + 3] + 256 * ext_bytes[start + 4]
         IN  IF ext_type = GroupPointer_TYPE /\ ext_len = Extension_LEN
             THEN Some(GroupPointer_from_bytes(
                          SubSeq(ext_bytes, start + 5, start + 4 + Extension_LEN)))
             ELSE scan_extensions(ext_bytes, start + 4 + ext_len)

get_extension_from_bytes(acc_data_bytes) == scan_extensions(acc_data_bytes, 0)

(* ------------------------------ accounts ------------------------------ *)

MintKey == [i \in 1..PUBKEY_BYTES |-> 100 + i]
WalletKey == [i \in 1..PUBKEY_BYTES |-> 200 + i]

\* AccountInfo: address, owning program, raw data.
AccountInfo(key, owner, data) == [ key |-> key, owner |-> owner, data |-> data ]

is_owned_by(account_info, program) == account_info.owner = program

AccountIds == {"mint", "wallet"}

\* Variant: the data is borrowed and scanned before the owner is checked.
from_account_info_unchecked_scan_first(account_info) ==
    LET found == get_extension_from_bytes(account_info.data)
        accesses == << "borrow_data_unchecked", "get_extension_from_bytes",
                       "is_owned_by" >>
    IN  IF found = None
        THEN [ result |-> "InvalidAccountData", view |-> None,
               accesses |-> << "borrow_data_unchecked",
                               "get_extension_from_bytes" >> ]
        ELSE IF ~ is_owned_by(account_info, TOKEN_2022_PROGRAM_ID)
        THEN [ result |-> "InvalidAccountOwner", view |-> None,
               accesses |-> accesses ]
        ELSE [ result |-> "Ok", view |-> found, accesses |-> accesses ]

\* from_account_info_unchecked: the owner check, then the unchecked borrow
\* of the data and the scan of the index.  `accesses` lists, in order, the
\* operations performed on the account.
from_account_info_unchecked(account_info) ==
    IF ~ is_owned_by(account_info, TOKEN_2022_PROGRAM_ID)
    THEN [ result |-> "InvalidAccountOwner", view |-> None,
           accesses |-> << "is_owned_by" >> ]
    ELSE LET found == get_extension_from_bytes(account_info.data)
             accesses == << "is_owned_by", "borrow_data_unchecked",
                            "get_extension_from_bytes" >>
         IN  IF found = None
             THEN [ result |-> "InvalidAccountData", view |-> None,
                    accesses |-> accesses ]
             ELSE [ result |-> "Ok", view |-> found, accesses |-> accesses ]

(* ------------------------- instruction payloads ----------------------- *)

\* MaybeUninit::<u8>::uninit(): a byte slot that holds no value yet.
UNINIT_BYTE == -1

\* A scratch buffer of n uninitialised slots; `writes` counts, per slot, how
\* many times it was written.
uninit_array(n) == [ bytes |-> [i \in 1..n |-> UNINIT_BYTE],
                     writes |-> [i \in 1..n |-> 0] ]

\* write_bytes(&mut buf[lo..hi], source): copies source into the destination
\* slice slot by slot, stopping at the shorter of the two.
write_bytes(buf, lo, hi, source) ==
    LET n == IF Len(source) < hi - lo THEN Len(source) ELSE hi - lo
        len == Len(buf.bytes)
    IN  [ bytes |-> SubSeq(buf.bytes, 1, lo) \o SubSeq(source, 1, n)
                      \o SubSeq(buf.bytes, lo + n + 1, len),
          writes |-> SubSeq(buf.writes, 1, lo)
                      \o [i \in 1..n |-> buf.writes[lo + i] + 1]
                      \o SubSeq(buf.writes, lo + n + 1, len) ]

\* Values a read of an uninitialised slot may produce.
JunkBytes == {0, 255}

\* core::slice::from_raw_parts(ptr as *const u8, n): the first n slots read
\* as initialised bytes.  Reading a slot that was never written is undefined:
\* the set holds one outcome per value such a read may produce.
from_raw_parts(buf, n) ==
    IF \A i \in 1..n : buf.bytes[i] # UNINIT_BYTE
    THEN { SubSeq(buf.bytes, 1, n) }
    ELSE { [i \in 1..n |-> IF buf.bytes[i] = UNINIT_BYTE THEN junk ELSE buf.bytes[i]] :
             junk \in JunkBytes }

\* AccountMeta constructors.
AccountMeta_writable(pubkey) ==
    [ pubkey |-> pubkey, is_writable |-> TRUE, is_signer |-> FALSE ]
AccountMeta_readonly_signer(pubkey) ==
    [ pubkey |-> pubkey, is_writable |-> FALSE, is_signer |-> TRUE ]

Instruction(program_id, account_metas, data) ==
    [ program_id |-> program_id, accounts |-> account_metas, data |-> data ]

\* Results the CPI channel may surface.
ChannelResults == {"Ok", "Custom(1)"}

\* Signer seed sets a caller may supply.
Signer1 == << "group", "bump" >>
Signer2 == << "mint" >>
SignerLists == { << Signer2, Signer1 >> }

\* pinocchio::cpi::invoke_signed: one request to the channel, answered by
\* `channel`.  `calls` is the list of requests made.
invoke_signed(instruction, account_infos, signers, channel) ==
    [ result |-> channel,
      calls |-> << [ instruction |-> instruction,
                     account_infos |-> account_infos,
                     signers |-> signers ] >> ]

(* ------------------------------ Initialize ---------------------------- *)

\* Initialize { mint, authority, group_address }; mint is an account id.
Initialize(mint, authority, group_address) ==
    [ mint |-> mint, authority |-> authority, group_address |-> group_address ]

\* Variant: the two address fields written into each other's slot.
Initialize_instruction_data_swapped(self) ==
    LET b0 == uninit_array(66)
        b1 == write_bytes(b0, 0, 1, << 40 >>)
        b2 == write_bytes(b1, 1, 2, << 0 >>)
        b3 == IF self.group_address # None
              THEN write_bytes(b2, 2, 34, self.group_address[1])
              ELSE write_bytes(b2, 2, 34, Pubkey_default)
        b4 == IF self.authority # None
              THEN write_bytes(b3, 34, 66, self.authority[1])
              ELSE write_bytes(b3, 34, 66, Pubkey_default)
    IN  b4

\* Variant: an absent field is skipped instead of written as zeros.
Initialize_instruction_data_skip_none(self) ==
    LET b0 == uninit_array(66)
        b1 == write_bytes(b0, 0, 1, << 40 >>)
        b2 == write_bytes(b1, 1, 2, << 0 >>)
        b3 == IF self.authority # None
              THEN write_bytes(b2, 2, 34, self.authority[1])
              ELSE b2
        b4 == IF self.group_address # None
              THEN write_bytes(b3, 34, 66, self.group_address[1])
              ELSE b3
    IN  b4

\* Variant: the group_address write starts one slot early (33..65).
Initialize_instruction_data_off_by_one(self) ==
    LET b0 == uninit_array(66)
        b1 == write_bytes(b0, 0, 1, << 40 >>)
        b2 == write_bytes(b1, 1, 2, << 0 >>)
        b3 == IF self.authority # None
              THEN write_bytes(b2, 2, 34, self.authority[1])
              ELSE write_bytes(b2, 2, 34, Pubkey_default)
        b4 == IF self.group_address # None
              THEN write_bytes(b3, 33, 65, self.group_address[1])
              ELSE write_bytes(b3, 33, 65, Pubkey_default)
    IN  b4

\* The field writes of Initialize::invoke_signed into the 66-slot buffer.
Initialize_instruction_data(self) ==
    LET b0 == uninit_array(66)
        b1 == write_bytes(b0, 0, 1, << 40 >>)
        b2 == write_bytes(b1, 1, 2, << 0 >>)
        b3 == IF self.authority # None
              THEN write_bytes(b2, 2, 34, self.authority[1])
              ELSE write_bytes(b2, 2, 34, Pubkey_default)
        b4 == IF self.group_address # None
              THEN write_bytes(b3, 34, 66, self.group_address[1])
              ELSE write_bytes(b3, 34, 66, Pubkey_default)
    IN  b4

Initialize_account_metas(self, accts) ==
    << AccountMeta_writable(accts[self.mint].key) >>

\* Variant: the builder checks the owner of the mint before anything else.
Initialize_invoke_signed_owner_checked(self, accts, signers, channel) ==
    IF ~ is_owned_by(accts[self.mint], TOKEN_2022_PROGRAM_ID)
    THEN { [ result |-> "InvalidAccountOwner", calls |-> << >>,
             instruction_data |-> uninit_array(0),
             accesses |-> << "is_owned_by" >> ] }
    ELSE LET instruction_data == Initialize_instruction_data(self)
             account_metas == Initialize_account_metas(self, accts)
         IN  { LET instruction == Instruction(TOKEN_2022_PROGRAM_ID, account_metas, data)
                   cpi == invoke_signed(instruction, << self.mint >>, signers, channel)
               IN  [ result |-> cpi.result, calls |-> cpi.calls,
                     instruction_data |-> instruction_data,
                     accesses |-> << "is_owned_by", "key" >> ] :
               data \in from_raw_parts(instruction_data, 66) }

\* The set of possible outcomes of Initialize::invoke_signed when the
\* channel answers `channel`.
Initialize_invoke_signed(self, accts, signers, channel) ==
    LET instruction_data == Initialize_instruction_data(self)
        account_metas == Initialize_account_metas(self, accts)
    IN  { LET instruction == Instruction(TOKEN_2022_PROGRAM_ID, account_metas, data)
              cpi == invoke_signed(instruction, << self.mint >>, signers, channel)
          IN  [ result |-> cpi.result, calls |-> cpi.calls,
                instruction_data |-> instruction_data,
                accesses |-> << "key" >> ] :
          data \in from_raw_parts(instruction_data, 66) }

Initialize_invoke(self, accts, channel) ==
    Initialize_invoke_signed(self, accts, << >>, channel)

(* -------------------------------- Update ------------------------------ *)

\* Update { mint, authority, group_address }; mint and authority are
\* account ids.
Update(mint, authority, group_address) ==
    [ mint |-> mint, authority |-> authority, group_address |-> group_address ]

\* Variant: the operation discriminator of Initialize left in place.
Update_instruction_data_init_tag(self) ==
    LET b0 == uninit_array(34)
        b1 == write_bytes(b0, 0, 1, << 40 >>)
        b2 == write_bytes(b1, 1, 2, << 0 >>)
        b3 == IF self.group_address # None
              THEN write_bytes(b2, 2, 34, self.group_address[1])
              ELSE write_bytes(b2, 2, 34, Pubkey_default)
    IN  b3

\* The field writes of Update::invoke_signed into the 34-slot buffer.
Update_instruction_data(self) ==
    LET b0 == uninit_array(34)
        b1 == write_bytes(b0, 0, 1, << 40 >>)
        b2 == write_bytes(b1, 1, 2, << 1 >>)
        b3 == IF self.group_address # None
              THEN write_bytes(b2, 2, 34, self.group_address[1])
              ELSE write_bytes(b2, 2, 34, Pubkey_default)
    IN  b3

\* Variant: the two account references in the opposite order.
Update_account_metas_reordered(self, accts) ==
    << AccountMeta_readonly_signer(accts[self.authority].key),
       AccountMeta_writable(accts[self.mint].key) >>

Update_account_metas(self, accts) ==
    << AccountMeta_writable(accts[self.mint].key),
       AccountMeta_readonly_signer(accts[self.authority].key) >>

\* Variant: a failed request is sent a second time.
Update_invoke_signed_retry(self, accts, signers, channel) ==
    LET instruction_data == Update_instruction_data(self)
        account_metas == Update_account_metas(self, accts)
    IN  { LET instruction == Instruction(TOKEN_2022_PROGRAM_ID, account_metas, data)
              cpi == invoke_signed(instruction, << self.mint, self.authority >>,
                                   signers, channel)
          IN  IF cpi.result = "Ok"
              THEN [ result |-> cpi.result, calls |-> cpi.calls,
                     instruction_data |-> instruction_data,
                     accesses |-> << "key", "key" >> ]
              ELSE [ result |-> cpi.result, calls |-> cpi.calls \o cpi.calls,
                     instruction_data |-> instruction_data,
                     accesses |-> << "key", "key" >> ] :
          data \in from_raw_parts(instruction_data, 34) }

\* The set of possible outcomes of Update::invoke_signed when the channel
\* answers `channel`.
Update_invoke_signed(self, accts, signers, channel) ==
    LET instruction_data == Update_instruction_data(self)
        account_metas == Update_account_metas(self, accts)
    IN  { LET instruction == Instruction(TOKEN_2022_PROGRAM_ID, account_metas, data)
              cpi == invoke_signed(instruction, << self.mint, self.authority >>,
                                   signers, channel)
          IN  [ result |-> cpi.result, calls |-> cpi.calls,
                instruction_data |-> instruction_data,
                accesses |-> << "key", "key" >> ] :
          data \in from_raw_parts(instruction_data, 34) }

Update_invoke(self, accts, channel) ==
    Update_invoke_signed(self, accts, << >>, channel)

(* ---------------------------- state machine --------------------------- *)

VARIABLES
    accounts,           \* account id -> AccountInfo
    op,                 \* the last call and its arguments
    result,             \* what the last call returned: "Ok" or the error
    view,               \* Some(record) returned by the accessor, else None
    accesses,           \* operations the last call performed on accounts
    instruction_data,   \* the builder's scratch buffer at the time of the CPI
    cpi_calls,          \* requests the last call made to the CPI channel
    ncalls              \* calls made so far by the calling program

vars == << accounts, op, result, view, accesses, instruction_data, cpi_calls,
           ncalls >>

Owners == {TOKEN_2022_PROGRAM_ID, SYSTEM_PROGRAM_ID}

Call(name, account, authority, group_address, signers, channel) ==
    [ name |-> name, account |-> account, authority |-> authority,
      group_address |-> group_address, signers |-> signers,
      channel |-> channel ]

Init ==
    /\ \E owner \in Owners, data \in Layouts :
          accounts = [ id \in AccountIds |->
                         IF id = "mint"
                         THEN AccountInfo(MintKey, owner, data)
                         ELSE AccountInfo(WalletKey, SYSTEM_PROGRAM_ID, << >>) ]
    /\ op = Call("none", "mint", None, None, << >>, "Ok")
    /\ result = "none"
    /\ view = None
    /\ accesses = << >>
    /\ instruction_data = uninit_array(0)
    /\ cpi_calls = << >>
    /\ ncalls = 0

\* GroupPointer::from_account_info_unchecked(&accounts[id])
Read ==
    /\ ncalls < MaxCalls
    /\ \E id \in AccountIds :
           LET r == from_account_info_unchecked(accounts[id])
           IN  /\ ncalls' = ncalls + 1
               /\ op' = Call("from_account_info_unchecked", id, None, None, << >>, "Ok")
               /\ result' = r.result
               /\ view' = r.view
               /\ accesses' = r.accesses
               /\ instruction_data' = uninit_array(0)
               /\ cpi_calls' = << >>
               /\ UNCHANGED accounts

Built(name, self, signers, channel, r) ==
    /\ ncalls' = ncalls + 1
    /\ op' = Call(name, self.mint, self.authority, self.group_address,
                  signers, channel)
    /\ result' = r.result
    /\ view' = None
    /\ accesses' = r.accesses
    /\ instruction_data' = r.instruction_data
    /\ cpi_calls' = r.calls
    /\ UNCHANGED accounts

\* Initialize { mint, authority, group_address }.invoke()
InitializeInvoke ==
    /\ ncalls < MaxCalls
    /\ \E authority \in Option(Addrs), group_address \in Option(Addrs),
          channel \in ChannelResults :
           LET self == Initialize("mint", authority, group_address)
           IN  \E r \in Initialize_invoke(self, accounts, channel) :
                   Built("Initialize::invoke", self, << >>, channel, r)

\* Initialize { mint, authority, group_address }.invoke_signed(signers)
InitializeInvokeSigned ==
    /\ ncalls < MaxCalls
    /\ \E authority \in Option(Addrs), group_address \in Option(Addrs),
          signers \in SignerLists, channel \in ChannelResults :
           LET self == Initialize("mint", authority, group_address)
           IN  \E r \in Initialize_invoke_signed(self, accounts, signers, channel) :
                   Built("Initialize::invoke_signed", self, signers, channel, r)

\* Update { mint, authority, group_address }.invoke()
UpdateInvoke ==
    /\ ncalls < MaxCalls
    /\ \E group_address \in Option(Addrs),
          channel \in ChannelResults :
           LET self == Update("mint", "wallet", group_address)
           IN  \E r \in Update_invoke(self, accounts, channel) :
                   Built("Update::invoke", self, << >>, channel, r)

\* Update { mint, authority, group_address }.invoke_signed(signers)
UpdateInvokeSigned ==
    /\ ncalls < MaxCalls
    /\ \E group_address \in Option(Addrs),
          signers \in SignerLists, channel \in ChannelResults :
           LET self == Update("mint", "wallet", group_address)
           IN  \E r \in Update_invoke_signed(self, accounts, signers, channel) :
                   Built("Update::invoke_signed", self, signers, channel, r)

Next ==
    \/ Read
    \/ InitializeInvoke
    \/ InitializeInvokeSigned
    \/ UpdateInvoke
    \/ UpdateInvokeSigned

Spec == Init /\ [][Next]_vars

(* ------------------------------ properties ---------------------------- *)

IsRead == op.name = "from_account_info_unchecked"
IsInitialize == op.name \in {"Initialize::invoke", "Initialize::invoke_signed"}
IsUpdate == op.name \in {"Update::invoke", "Update::invoke_signed"}
IsBuild == IsInitialize \/ IsUpdate

\* The account the last call was given as its (mint) account.
Target == accounts[op.account]
OwnedByToken2022 == Target.owner = TOKEN_2022_PROGRAM_ID

\* The entries the account's index is made of, read off the data as laid out.
IndexOf(data) == CHOOSE es \in EntryLists : Flatten(es) = data
EntryLen(e) == e[3] + 256 * e[4]
EntryValue(e) == SubSeq(e, 5, Len(e))
TargetIndex == IndexOf(Target.data)
HasGroupPointerTag(es) ==
    \E i \in 1..Len(es) : EntryType(es[i]) = 20
HasGroupPointerOfOtherLen(es) ==
    \E i \in 1..Len(es) : EntryType(es[i]) = 20 /\ EntryLen(es[i]) # 64
HasGroupPointerRecord(es) ==
    \E i \in 1..Len(es) : EntryType(es[i]) = 20 /\ EntryLen(es[i]) = 64

\* The payload of the one request the last call made.
Payload == cpi_calls[1].instruction.data
Zero32 == [i \in 1..32 |-> 0]
Slot(field) == IF field = None THEN Zero32 ELSE field[1]

\* True iff `part` occurs in `whole` as a run of consecutive bytes.
Occurs(part, whole) ==
    \E k \in 0..(Len(whole) - Len(part)) :
        SubSeq(whole, k + 1, k + Len(part)) = part

\* C1: reading an account that the Token-2022 program does not own returns
\* InvalidAccountOwner whatever its data holds, and the owner check is the only
\* thing done to the account: its data is neither borrowed nor scanned.
C1_WrongOwnerIsInvalidOwner ==
    (IsRead /\ ~ OwnedByToken2022) =>
        /\ result = "InvalidAccountOwner"
        /\ view = None
        /\ accesses = << "is_owned_by" >>

\* C1 witness: a read of a wrongly owned mint that also lacks the extension
\* returned InvalidAccountOwner.
C1_Witness ==
    /\ IsRead /\ op.account = "mint" /\ ~ OwnedByToken2022
    /\ ~ HasGroupPointerTag(TargetIndex)
    /\ Len(TargetIndex) > 0
    /\ result = "InvalidAccountOwner"

\* C2 as stated: every build-and-invoke on a mint that the expected program
\* does not own fails with InvalidAccountOwner without calling the channel.
C2_BuildFailsOnWrongOwner ==
    (IsBuild /\ ~ OwnedByToken2022) =>
        /\ result = "InvalidAccountOwner"
        /\ cpi_calls = << >>

\* C2 amended: a build-and-invoke on a mint that the expected program does not
\* own makes no owner check and never borrows the mint's data: it reads only
\* account addresses, sends one request and returns the channel's answer.
C2_BuildIgnoresOwner ==
    (IsBuild /\ ~ OwnedByToken2022) =>
        /\ \A i \in 1..Len(accesses) : accesses[i] = "key"
        /\ Len(cpi_calls) = 1
        /\ result = op.channel

\* C2 witness: an Initialize on a wrongly owned mint went through to the
\* channel and returned Ok.
C2_Witness ==
    /\ IsInitialize /\ ~ OwnedByToken2022
    /\ Len(cpi_calls) = 1
    /\ result = "Ok"

\* C3: reading an account owned by the Token-2022 program returns
\* InvalidAccountData, and no record, when its index has no GroupPointer entry
\* or has one whose declared length is not 64.
C3_MissingOrMisSizedIsInvalidData ==
    (IsRead /\ OwnedByToken2022
       /\ (~ HasGroupPointerTag(TargetIndex) \/ HasGroupPointerOfOtherLen(TargetIndex))) =>
        /\ result = "InvalidAccountData"
        /\ view = None

\* C3 witness: a read of an owned mint whose index holds another extension
\* and a GroupPointer entry of length 32 returned InvalidAccountData.
C3_Witness ==
    /\ IsRead /\ OwnedByToken2022
    /\ HasGroupPointerOfOtherLen(TargetIndex)
    /\ Len(TargetIndex) = 2
    /\ result = "InvalidAccountData"

\* C4: a read of an account owned by the expected program whose index holds a
\* 64-byte GroupPointer entry succeeds with authority = the first 32 bytes of
\* the entry's value and group_address = the next 32, and leaves the account
\* data as it was.
C4_ReadReturnsRecord ==
    [][ (IsRead' /\ OwnedByToken2022' /\ HasGroupPointerRecord(TargetIndex')) =>
          /\ result' = "Ok"
          /\ \E i \in 1..Len(TargetIndex') :
                /\ EntryType(TargetIndex'[i]) = 20
                /\ view' = << [ authority |-> SubSeq(EntryValue(TargetIndex'[i]), 1, 32),
                                group_address |-> SubSeq(EntryValue(TargetIndex'[i]), 33, 64) ] >>
          /\ accounts' = accounts ]_vars

\* C4 witness: the read of a mint recording authority 0xAA..AA and
\* group_address 0xBB..BB, behind another extension, returned exactly those.
C4_Witness ==
    /\ IsRead /\ OwnedByToken2022
    /\ Len(TargetIndex) = 2
    /\ EntryType(TargetIndex[1]) # 20
    /\ result = "Ok"
    /\ view = << [ authority |-> [i \in 1..32 |-> 170],
                   group_address |-> [i \in 1..32 |-> 187] ] >>

\* C5: the payload Initialize sends with authority = Some(A) and
\* group_address = Some(G) is 66 bytes: 40, 0, then A, then G.
C5_InitializePayloadRoundTrip ==
    (IsInitialize /\ op.authority # None /\ op.group_address # None) =>
        /\ Len(cpi_calls) = 1
        /\ Len(Payload) = 66
        /\ Payload[1] = 40
        /\ Payload[2] = 0
        /\ \A i \in 1..32 : Payload[2 + i] = op.authority[1][i]
        /\ \A i \in 1..32 : Payload[34 + i] = op.group_address[1][i]

\* C5 witness: an Initialize with authority 0xAA..AA and group_address
\* 0xBB..BB sent a payload carrying them in that order.
C5_Witness ==
    /\ IsInitialize
    /\ op.authority = << [i \in 1..32 |-> 170] >>
    /\ op.group_address = << [i \in 1..32 |-> 187] >>
    /\ Len(cpi_calls) = 1
    /\ Payload[3] = 170 /\ Payload[34] = 170
    /\ Payload[35] = 187 /\ Payload[66] = 187

C7_AbsentFieldIsZeroSlot ==
    /\ IsInitialize =>
          /\ Len(cpi_calls) = 1
          /\ Payload = << 40, 0 >> \o Slot(op.authority) \o Slot(op.group_address)
          /\ Len(Payload) = 66
    /\ IsUpdate =>
          /\ Len(cpi_calls) = 1
          /\ Payload = << 40, 1 >> \o Slot(op.group_address)
          /\ Len(Payload) = 34

\* C7 witness: an Initialize with no authority and group_address 0xBB..BB
\* sent 66 bytes with zeros at 2..34 and the address at 34..66.
C7_Witness ==
    /\ IsInitialize
    /\ op.authority = None
    /\ op.group_address = << [i \in 1..32 |-> 187] >>
    /\ Len(cpi_calls) = 1
    /\ Len(Payload) = 66
    /\ \A i \in 3..34 : Payload[i] = 0
    /\ \A i \in 35..66 : Payload[i] = 187

\* C8: Initialize sends exactly one account reference, the mint as writable
\* non-signer; Update sends exactly two, the mint as writable non-signer and
\* then the authority as read-only signer; the instruction is addressed to the
\* Token-2022 program.
C8_AccountReferences ==
    /\ IsBuild =>
          /\ Len(cpi_calls) = 1
          /\ cpi_calls[1].instruction.program_id =
                "TokenzQdBNbLqP5VEhdkAS6EPFLC1PHnBqCXEpPxuEb"
    /\ IsInitialize =>
          cpi_calls[1].instruction.accounts =
              << [ pubkey |-> accounts[op.account].key,
                   is_writable |-> TRUE, is_signer |-> FALSE ] >>
    /\ IsUpdate =>
          cpi_calls[1].instruction.accounts =
              << [ pubkey |-> accounts[op.account].key,
                   is_writable |-> TRUE, is_signer |-> FALSE ],
                 [ pubkey |-> accounts[op.authority].key,
                   is_writable |-> FALSE, is_signer |-> TRUE ] >>

\* C8 witness: an Update sent two references, the second one the authority.
C8_Witness ==
    /\ IsUpdate
    /\ Len(cpi_calls) = 1
    /\ Len(cpi_calls[1].instruction.accounts) = 2
    /\ cpi_calls[1].instruction.accounts[2].pubkey = WalletKey
    /\ cpi_calls[1].instruction.accounts[2].is_signer

\* C9: a build-and-invoke makes exactly one request, carrying the caller's
\* signers as given (none for invoke()), and returns the channel's answer as
\* it is.
C9_SingleRequestResultPropagated ==
    IsBuild =>
        /\ Len(cpi_calls) = 1
        /\ cpi_calls[1].signers = op.signers
        /\ (op.name \in {"Initialize::invoke", "Update::invoke"}
              => cpi_calls[1].signers = << >>)
        /\ result = op.channel

\* C9 witness: an Update::invoke_signed with two signers whose one request
\* failed returned that failure.
C9_Witness ==
    /\ op.name = "Update::invoke_signed"
    /\ Len(op.signers) = 2
    /\ op.channel = "Custom(1)"
    /\ Len(cpi_calls) = 1
    /\ cpi_calls[1].signers = op.signers
    /\ result = "Custom(1)"

\* C10: when the payload is handed to the channel, each of its slots 0..len-1
\* (len 66 for Initialize, 34 for Update) has been written exactly once, so no
\* slot is read uninitialised.
C10_EverySlotWrittenOnce ==
    IsBuild =>
        LET n == IF IsInitialize THEN 66 ELSE 34
        IN  /\ Len(instruction_data.bytes) = n
            /\ Len(cpi_calls) = 1
            /\ Len(Payload) = n
            /\ \A i \in 1..n :
                  /\ instruction_data.writes[i] = 1
                  /\ instruction_data.bytes[i] # UNINIT_BYTE

\* C10 witness: an Initialize with both fields absent handed over a buffer
\* whose 66 slots were each written once.
C10_Witness ==
    /\ IsInitialize
    /\ op.authority = None /\ op.group_address = None
    /\ Len(instruction_data.writes) = 66
    /\ \A i \in 1..66 : instruction_data.writes[i] = 1

====
